---- MODULE Spec2Model ----
(***************************************************************************)
(* Model of Ding_talk_every_day.py: the queue file of image URLs and its   *)
(* pop_first_url, the URL validator, the retrying sender and the main run   *)
(* that fans one popped URL out to every configured webhook.                *)
(*                                                                         *)
(* Text is modelled as a sequence of one-character strings, so that         *)
(* splitting, trimming, joining and substring tests are computed.           *)
(***************************************************************************)
EXTENDS Integers, Sequences, FiniteSets, TLC

VARIABLES
    fs,             \* the disk: path -> [exists, data]
    orig,           \* the disk as it was when the run started (history)
    pc,             \* position of the run
    current_url,    \* pop_first_url: lines[0]
    remaining,      \* pop_first_url: lines[1:]
    ioFault,        \* an I/O error was raised inside pop_first_url (history)
    img_url,        \* main: the value returned by pop_first_url
    config,         \* main: the list returned by load_config
    cfgLoads,       \* number of load_config calls (history)
    idx,            \* main: 1-based position in config (0 before the loop)
    retry,          \* _send_with_retry: loop variable
    attempts,       \* transport outcomes of the current send (history)
    delays,         \* retry sleeps of the current send (history)
    success_count,  \* main: success counter
    report,         \* one record per destination the loop has left (history)
    pause,          \* main: the last pacing sleep, 0 before the first
    exit_code,      \* value returned by main, NoExit while running
    exitVia,        \* which return statement of main produced exit_code
    popLog,         \* what the earlier pops of a sequence of runs returned (history)
    rival,          \* a second run popping the same queue file: its position and locals
    fnIn,           \* a single call of one operation: the operation and its arguments
    fnOut,          \* what that call returned or handed to the transport
    hnd             \* per run, the path that names the file its write handle is open on

vars == <<fs, orig, pc, current_url, remaining, ioFault, img_url, config,
          cfgLoads, idx, retry, attempts, delays, success_count, report,
          pause, exit_code, exitVia, popLog, rival, fnIn, fnOut, hnd>>

popLocals  == <<current_url, remaining>>
mainLocals == <<config, cfgLoads, idx, success_count, report, pause, exit_code, exitVia>>
sendLocals == <<retry, attempts, delays>>
calls      == <<popLog, rival, fnIn, fnOut>>
aside      == <<popLog, rival, fnIn, fnOut, hnd>>

----------------------------------------------------------------------------
(* Bounds *)

MaxLines    == 2    \* lines of a queue file drawn for the pop specification
MaxDest     == 2    \* entries of a configuration list
JitterSteps == 2    \* random.uniform(0, 1) is drawn from k/JitterSteps, 0 <= k < JitterSteps

----------------------------------------------------------------------------
(* Program constants *)

MaxRetriesOffByOne  == 3 - 1
MAX_RETRIES         == 3
INITIAL_RETRY_DELAY == 1
PUSH_INTERVAL_MIN   == 1
PUSH_INTERVAL_MAX   == 3

IMAGE_URL_FILE == "image.txt"
TMP_SUFFIX     == ".tmp"

NoExit == -1

----------------------------------------------------------------------------
(* Text *)

HTTPS_PREFIX == <<"h", "t", "t", "p", "s", ":", "/", "/">>

UrlA       == <<"h", "t", "t", "p", "s", ":", "/", "/", "c", "d", "n", ".", "x", "/", "a", ".", "j", "p", "g">>
UrlB       == <<"h", "t", "t", "p", "s", ":", "/", "/", "i", "m", "g", ".", "x", "/", "b", ".", "P", "N", "G">>
UrlHttp    == <<"h", "t", "t", "p", ":", "/", "/", "c", "d", "n", ".", "x", "/", "a", ".", "j", "p", "g">>
UrlBlocked == <<"h", "t", "t", "p", "s", ":", "/", "/", "G", "i", "t", "H", "u", "b", ".", "c", "o", "m", "/", "a", ".", "j", "p", "g">>
UrlTxt     == <<"h", "t", "t", "p", "s", ":", "/", "/", "c", "d", "n", ".", "x", "/", "a", ".", "t", "x", "t">>
UrlPipe    == <<"h", "t", "t", "p", "s", ":", "/", "/", "c", "d", "n", ".", "x", "/", "a", "|", "b", ".", "g", "i", "f">>

Whitespace == {" ", "\t", "\n"}

StartsWith(s, p) == Len(s) >= Len(p) /\ SubSeq(s, 1, Len(p)) = p

EndsWith(s, p) == Len(s) >= Len(p) /\ SubSeq(s, Len(s) - Len(p) + 1, Len(s)) = p

Contains(s, p) == \E i \in 1..(Len(s) - Len(p) + 1) : SubSeq(s, i, i + Len(p) - 1) = p

UpperToLower ==
    "A" :> "a" @@ "B" :> "b" @@ "C" :> "c" @@ "D" :> "d" @@ "E" :> "e" @@
    "F" :> "f" @@ "G" :> "g" @@ "H" :> "h" @@ "I" :> "i" @@ "J" :> "j" @@
    "K" :> "k" @@ "L" :> "l" @@ "M" :> "m" @@ "N" :> "n" @@ "O" :> "o" @@
    "P" :> "p" @@ "Q" :> "q" @@ "R" :> "r" @@ "S" :> "s" @@ "T" :> "t" @@
    "U" :> "u" @@ "V" :> "v" @@ "W" :> "w" @@ "X" :> "x" @@ "Y" :> "y" @@
    "Z" :> "z"

Lower(s) == [i \in 1..Len(s) |-> IF s[i] \in DOMAIN UpperToLower THEN UpperToLower[s[i]] ELSE s[i]]

RECURSIVE LStrip(_)
LStrip(s) == IF s # <<>> /\ Head(s) \in Whitespace THEN LStrip(Tail(s)) ELSE s

RECURSIVE RStrip(_)
RStrip(s) == IF s # <<>> /\ s[Len(s)] \in Whitespace THEN RStrip(SubSeq(s, 1, Len(s) - 1)) ELSE s

\* a buggy variant that trims the left end only
StripLeftOnly(s) == LStrip(s)

\* str.strip()
Strip(s) == RStrip(LStrip(s))

\* iterating a text file: each line keeps its "\n", the last one may lack it
RECURSIVE FileLines(_)
FileLines(data) ==
    IF data = <<>> THEN <<>>
    ELSE IF \E i \in 1..Len(data) : data[i] = "\n"
         THEN LET n == CHOOSE i \in 1..Len(data) :
                          data[i] = "\n" /\ \A j \in 1..(i - 1) : data[j] # "\n"
              IN  <<SubSeq(data, 1, n)>> \o FileLines(SubSeq(data, n + 1, Len(data)))
         ELSE <<data>>

RECURSIVE StripAll(_)
StripAll(ls) == IF ls = <<>> THEN <<>> ELSE <<Strip(Head(ls))>> \o StripAll(Tail(ls))

IsNonEmpty(s) == s # <<>>

\* a buggy variant that keeps blank lines
ReadLinesKeepBlank(data) == StripAll(FileLines(data))

\* lines = [line.strip() for line in f if line.strip()]
ReadLines(data) == SelectSeq(StripAll(FileLines(data)), IsNonEmpty)

RECURSIVE JoinLines(_)
JoinLines(ls) ==
    IF ls = <<>> THEN <<>>
    ELSE IF Len(ls) = 1 THEN Head(ls)
    ELSE Head(ls) \o <<"\n">> \o JoinLines(Tail(ls))

\* what the with-block writes to the temporary file
WrittenData(rem) == IF rem # <<>> THEN JoinLines(rem) \o <<"\n">> ELSE <<>>

----------------------------------------------------------------------------
(* Files *)

Absent == [exists |-> FALSE, data |-> <<>>]

File(d) == [exists |-> TRUE, data |-> d]

None == [some |-> FALSE, val |-> <<>>]

Some(v) == [some |-> TRUE, val |-> v]

\* a buggy variant that rewrites the queue file in place
TempPathInPlace(file_path) == file_path

\* temp_path = file_path + ".tmp"
TempPath(file_path) == file_path \o TMP_SUFFIX

Paths == {IMAGE_URL_FILE, IMAGE_URL_FILE \o TMP_SUFFIX}

\* os.replace(src, dst)
Replace(f, src, dst) ==
    IF src = dst THEN f ELSE [f EXCEPT ![dst] = f[src], ![src] = Absent]

\* a write handle stays on its file when the file is renamed: after
\* os.replace(tmp, queue) a handle opened on tmp writes into the queue file,
\* and a handle on the replaced queue file writes into a file without a name
NoHandles == [main |-> "none", rival |-> "none"]

Renamed(h) ==
    [r \in DOMAIN h |-> IF h[r] = "tmp" THEN "queue"
                        ELSE IF h[r] = "queue" THEN "unlinked"
                        ELSE h[r]]

HandlePath(h) == IF h = "tmp" THEN TempPath(IMAGE_URL_FILE) ELSE IMAGE_URL_FILE

\* a handle opened with mode 'w' writes from offset 0 over what the file holds
Overlay(old, data) == data \o SubSeq(old, Len(data) + 1, Len(old))

WriteThrough(f, h, data) ==
    IF h \in {"tmp", "queue"}
    THEN [f EXCEPT ![HandlePath(h)] = File(Overlay(f[HandlePath(h)].data, data))]
    ELSE f

----------------------------------------------------------------------------
(* pop_first_url(IMAGE_URL_FILE), one action per step that touches the disk *)

PopPcs == {"pop_exists", "pop_read", "pop_open", "pop_write", "pop_close",
           "pop_replace", "pop_return"}

\* return None: main stores it in img_url
ReturnNone ==
    /\ img_url' = None
    /\ pc' = "main_check"

\* if not os.path.exists(file_path): return None
PopExists ==
    /\ pc = "pop_exists"
    /\ IF fs[IMAGE_URL_FILE].exists
       THEN pc' = "pop_read" /\ UNCHANGED img_url
       ELSE ReturnNone
    /\ UNCHANGED <<fs, orig, aside, popLocals, ioFault, mainLocals, sendLocals>>

\* open + read; an empty list returns None, otherwise lines[0] and lines[1:]
PopRead ==
    /\ pc = "pop_read"
    /\ \E ok \in BOOLEAN :
         IF ~ok
         THEN /\ ioFault' = TRUE
              /\ ReturnNone
              /\ UNCHANGED popLocals
         ELSE LET lines == ReadLines(fs[IMAGE_URL_FILE].data)
              IN  IF lines = <<>>
                  THEN /\ ReturnNone
                       /\ UNCHANGED <<popLocals, ioFault>>
                  ELSE /\ current_url' = Head(lines)
                       /\ remaining' = Tail(lines)
                       /\ pc' = "pop_open"
                       /\ UNCHANGED <<img_url, ioFault>>
    /\ UNCHANGED <<fs, orig, aside, mainLocals, sendLocals>>

\* open(temp_path, 'w') creates or truncates the temporary file
PopOpenTmp ==
    /\ pc = "pop_open"
    /\ \E ok \in BOOLEAN :
         IF ok
         THEN /\ fs' = [fs EXCEPT ![TempPath(IMAGE_URL_FILE)] = File(<<>>)]
              /\ hnd' = [hnd EXCEPT !.main = "tmp"]
              /\ pc' = "pop_write"
              /\ UNCHANGED <<img_url, ioFault>>
         ELSE /\ ioFault' = TRUE
              /\ ReturnNone
              /\ UNCHANGED <<fs, hnd>>
    /\ UNCHANGED <<orig, calls, popLocals, mainLocals, sendLocals>>

\* f.write(...): buffered, so any prefix of the data may have reached the disk
PopWrite ==
    /\ pc = "pop_write"
    /\ \E k \in 0..Len(WrittenData(remaining)) :
         fs' = WriteThrough(fs, hnd.main, SubSeq(WrittenData(remaining), 1, k))
    /\ pc' = "pop_close"
    /\ UNCHANGED <<orig, aside, popLocals, ioFault, img_url, mainLocals, sendLocals>>

\* leaving the with-block flushes and closes the temporary file
PopClose ==
    /\ pc = "pop_close"
    /\ \E ok \in BOOLEAN :
         IF ok
         THEN /\ fs' = WriteThrough(fs, hnd.main, WrittenData(remaining))
              /\ pc' = "pop_replace"
              /\ UNCHANGED <<img_url, ioFault>>
         ELSE /\ ioFault' = TRUE
              /\ ReturnNone
              /\ UNCHANGED fs
    /\ hnd' = [hnd EXCEPT !.main = "none"]
    /\ UNCHANGED <<orig, calls, popLocals, mainLocals, sendLocals>>

\* a buggy variant that removes the queue file instead of leaving it empty
PopReplaceUnlinkEmpty ==
    /\ pc = "pop_replace"
    /\ \E ok \in BOOLEAN :
         IF ok /\ fs[TempPath(IMAGE_URL_FILE)].exists
         THEN /\ fs' = IF remaining = <<>>
                       THEN [p \in Paths |-> Absent]
                       ELSE Replace(fs, TempPath(IMAGE_URL_FILE), IMAGE_URL_FILE)
              /\ hnd' = Renamed(hnd)
              /\ pc' = "pop_return"
              /\ UNCHANGED <<img_url, ioFault>>
         ELSE /\ ioFault' = (ioFault \/ ~ok)
              /\ ReturnNone
              /\ UNCHANGED <<fs, hnd>>
    /\ UNCHANGED <<orig, calls, popLocals, mainLocals, sendLocals>>

\* os.replace(temp_path, file_path): raises when temp_path names no file
PopReplace ==
    /\ pc = "pop_replace"
    /\ \E ok \in BOOLEAN :
         IF ok /\ fs[TempPath(IMAGE_URL_FILE)].exists
         THEN /\ fs' = Replace(fs, TempPath(IMAGE_URL_FILE), IMAGE_URL_FILE)
              /\ hnd' = Renamed(hnd)
              /\ pc' = "pop_return"
              /\ UNCHANGED <<img_url, ioFault>>
         ELSE /\ ioFault' = (ioFault \/ ~ok)
              /\ ReturnNone
              /\ UNCHANGED <<fs, hnd>>
    /\ UNCHANGED <<orig, calls, popLocals, mainLocals, sendLocals>>

\* a buggy variant that returns lines[1] when there is one
PopReturnSecond ==
    /\ pc = "pop_return"
    /\ img_url' = Some(IF remaining # <<>> THEN Head(remaining) ELSE current_url)
    /\ pc' = "main_check"
    /\ UNCHANGED <<fs, orig, aside, popLocals, ioFault, mainLocals, sendLocals>>

\* return current_url
PopReturn ==
    /\ pc = "pop_return"
    /\ img_url' = Some(current_url)
    /\ pc' = "main_check"
    /\ UNCHANGED <<fs, orig, aside, popLocals, ioFault, mainLocals, sendLocals>>

\* the process is killed: its memory is gone, the disk keeps what it holds
Crash ==
    /\ pc \notin {"done", "crashed"}
    /\ pc' = "crashed"
    /\ current_url' = <<>>
    /\ remaining' = <<>>
    /\ img_url' = None
    /\ config' = <<>>
    /\ idx' = 0
    /\ retry' = 0
    /\ success_count' = 0
    /\ hnd' = [hnd EXCEPT !.main = "none"]
    /\ UNCHANGED <<fs, orig, calls, ioFault, cfgLoads, attempts, delays, report, pause,
                   exit_code, exitVia>>

PopStep ==
    \/ PopExists
    \/ PopRead
    \/ PopOpenTmp
    \/ PopWrite
    \/ PopClose
    \/ PopReplace
    \/ PopReturn

----------------------------------------------------------------------------
(* The pop specification: one call of pop_first_url on a drawn queue file   *)

SampleLines == {<<>>, <<" ", "\t">>, UrlA, <<" ">> \o UrlB \o <<" ">>, UrlHttp}

LineSeqs(n) == UNION {[1..k -> SampleLines] : k \in 0..n}

QueueTexts ==
    {JoinLines(ls) : ls \in LineSeqs(MaxLines)}
        \cup {JoinLines(ls) \o <<"\n">> : ls \in LineSeqs(MaxLines)}

\* a temporary file left behind by an earlier, interrupted run
StaleTmp == File(<<"o", "l", "d">>)

Disks(texts, tmps) ==
    {[p \in Paths |-> IF p = IMAGE_URL_FILE THEN q ELSE t] :
        q \in {Absent} \cup {File(d) : d \in texts}, t \in tmps}

\* no second run, no single call
NoRival == [pc |-> "absent", current_url |-> <<>>, remaining |-> <<>>, ret |-> None]

NoCall == [fn |-> "none"]

InitLocals ==
    /\ orig = fs
    /\ current_url = <<>>
    /\ remaining = <<>>
    /\ ioFault = FALSE
    /\ img_url = None
    /\ config = <<>>
    /\ cfgLoads = 0
    /\ idx = 0
    /\ retry = 0
    /\ attempts = <<>>
    /\ delays = <<>>
    /\ success_count = 0
    /\ report = <<>>
    /\ pause = 0
    /\ exit_code = NoExit
    /\ exitVia = "none"

InitRun ==
    /\ InitLocals
    /\ pc = "pop_exists"
    /\ popLog = <<>>
    /\ rival = NoRival
    /\ fnIn = NoCall
    /\ fnOut = NoCall
    /\ hnd = NoHandles

InitPop ==
    /\ fs \in Disks(QueueTexts, {Absent, StaleTmp})
    /\ InitRun

NextPop ==
    \/ PopStep
    \/ Crash

SpecPop == InitPop /\ [][NextPop]_vars

----------------------------------------------------------------------------
(* The drain specification: pop_first_url called again and again, one call  *)
(* after the other, on the same queue file                                   *)

MaxPops == 4

\* the call has returned: its result is noted and the next call starts
PopAgain ==
    /\ pc = "main_check"
    /\ Len(popLog) < MaxPops
    /\ popLog' = Append(popLog, img_url)
    /\ pc' = "pop_exists"
    /\ current_url' = <<>>
    /\ remaining' = <<>>
    /\ img_url' = None
    /\ UNCHANGED <<fs, orig, rival, fnIn, fnOut, hnd, ioFault, mainLocals, sendLocals>>

InitDrain ==
    /\ fs \in Disks(QueueTexts, {Absent, StaleTmp})
    /\ InitRun

NextDrain ==
    \/ PopStep
    \/ PopAgain

SpecDrain == InitDrain /\ [][NextDrain]_vars

----------------------------------------------------------------------------
(* The race specification: a second run calls pop_first_url on the same     *)
(* queue file while the first one does; their steps interleave               *)

RivalFrame == <<orig, pc, popLocals, img_url, mainLocals, sendLocals, popLog, fnIn, fnOut>>

\* the second run's call returns v
RivalReturns(v) == rival' = [rival EXCEPT !.pc = "returned", !.ret = v]

\* if not os.path.exists(file_path): return None
RivalExists ==
    /\ rival.pc = "pop_exists"
    /\ IF fs[IMAGE_URL_FILE].exists
       THEN rival' = [rival EXCEPT !.pc = "pop_read"]
       ELSE RivalReturns(None)
    /\ UNCHANGED <<fs, hnd, ioFault, RivalFrame>>

\* open + read; an empty list returns None, otherwise lines[0] and lines[1:]
RivalRead ==
    /\ rival.pc = "pop_read"
    /\ \E ok \in BOOLEAN :
         IF ~ok
         THEN /\ ioFault' = TRUE
              /\ RivalReturns(None)
         ELSE LET lines == ReadLines(fs[IMAGE_URL_FILE].data)
              IN  /\ IF lines = <<>>
                     THEN RivalReturns(None)
                     ELSE rival' = [rival EXCEPT !.pc = "pop_open",
                                                 !.current_url = Head(lines),
                                                 !.remaining = Tail(lines)]
                  /\ UNCHANGED ioFault
    /\ UNCHANGED <<fs, hnd, RivalFrame>>

\* open(temp_path, 'w') creates or truncates the temporary file
RivalOpenTmp ==
    /\ rival.pc = "pop_open"
    /\ \E ok \in BOOLEAN :
         IF ok
         THEN /\ fs' = [fs EXCEPT ![TempPath(IMAGE_URL_FILE)] = File(<<>>)]
              /\ hnd' = [hnd EXCEPT !.rival = "tmp"]
              /\ rival' = [rival EXCEPT !.pc = "pop_write"]
              /\ UNCHANGED ioFault
         ELSE /\ ioFault' = TRUE
              /\ RivalReturns(None)
              /\ UNCHANGED <<fs, hnd>>
    /\ UNCHANGED RivalFrame

\* f.write(...): buffered, so any prefix of the data may have reached the disk
RivalWrite ==
    /\ rival.pc = "pop_write"
    /\ \E k \in 0..Len(WrittenData(rival.remaining)) :
         fs' = WriteThrough(fs, hnd.rival, SubSeq(WrittenData(rival.remaining), 1, k))
    /\ rival' = [rival EXCEPT !.pc = "pop_close"]
    /\ UNCHANGED <<hnd, ioFault, RivalFrame>>

\* leaving the with-block flushes and closes the temporary file
RivalClose ==
    /\ rival.pc = "pop_close"
    /\ \E ok \in BOOLEAN :
         IF ok
         THEN /\ fs' = WriteThrough(fs, hnd.rival, WrittenData(rival.remaining))
              /\ rival' = [rival EXCEPT !.pc = "pop_replace"]
              /\ UNCHANGED ioFault
         ELSE /\ ioFault' = TRUE
              /\ RivalReturns(None)
              /\ UNCHANGED fs
    /\ hnd' = [hnd EXCEPT !.rival = "none"]
    /\ UNCHANGED RivalFrame

\* os.replace(temp_path, file_path): raises when temp_path names no file
RivalReplace ==
    /\ rival.pc = "pop_replace"
    /\ \E ok \in BOOLEAN :
         IF ok /\ fs[TempPath(IMAGE_URL_FILE)].exists
         THEN /\ fs' = Replace(fs, TempPath(IMAGE_URL_FILE), IMAGE_URL_FILE)
              /\ hnd' = Renamed(hnd)
              /\ rival' = [rival EXCEPT !.pc = "pop_return"]
              /\ UNCHANGED ioFault
         ELSE /\ ioFault' = (ioFault \/ ~ok)
              /\ RivalReturns(None)
              /\ UNCHANGED <<fs, hnd>>
    /\ UNCHANGED RivalFrame

\* return current_url
RivalReturn ==
    /\ rival.pc = "pop_return"
    /\ RivalReturns(Some(rival.current_url))
    /\ UNCHANGED <<fs, hnd, ioFault, RivalFrame>>

RivalStep ==
    \/ RivalExists
    \/ RivalRead
    \/ RivalOpenTmp
    \/ RivalWrite
    \/ RivalClose
    \/ RivalReplace
    \/ RivalReturn

RaceLines == {UrlA, <<" ">> \o UrlB \o <<" ">>}

RaceTexts == {JoinLines(ls) \o <<"\n">> : ls \in UNION {[1..k -> RaceLines] : k \in 0..MaxLines}}

InitRace ==
    /\ fs \in Disks(RaceTexts, {Absent, StaleTmp})
    /\ InitLocals
    /\ pc = "pop_exists"
    /\ popLog = <<>>
    /\ rival = [NoRival EXCEPT !.pc = "pop_exists"]
    /\ fnIn = NoCall
    /\ fnOut = NoCall
    /\ hnd = NoHandles

NextRace ==
    \/ PopStep
    \/ RivalStep

SpecRace == InitRace /\ [][NextRace]_vars

----------------------------------------------------------------------------
(* What the queue file is expected to hold, stated from the text alone      *)

NewlineAt(d)  == {i \in 1..Len(d) : d[i] = "\n"}

\* segment k of d lies strictly between the (k-1)-th and the k-th newline
SegLo(d, k) == IF k = 1 THEN 1
               ELSE 1 + CHOOSE i \in NewlineAt(d) : Cardinality({j \in NewlineAt(d) : j < i}) = k - 2

SegHi(d, k) == IF k = Cardinality(NewlineAt(d)) + 1 THEN Len(d)
               ELSE (CHOOSE i \in NewlineAt(d) : Cardinality({j \in NewlineAt(d) : j < i}) = k - 1) - 1

\* the text positions of segment k that hold a visible character
Visible(d, k) == {i \in SegLo(d, k)..SegHi(d, k) : d[i] \notin Whitespace}

Min(S) == CHOOSE x \in S : \A y \in S : x <= y

Max(S) == CHOOSE x \in S : \A y \in S : x >= y

\* the segments that hold a visible character, in order
Entries(d) == {k \in 1..(Cardinality(NewlineAt(d)) + 1) : Visible(d, k) # {}}

\* the n-th identifier of the text: the n-th such segment, from its first to its last visible character
Entry(d, n) ==
    LET k == CHOOSE e \in Entries(d) : Cardinality({x \in Entries(d) : x < e}) = n - 1
    IN  SubSeq(d, Min(Visible(d, k)), Max(Visible(d, k)))

\* text t is exactly the identifiers of d from the second on, one per line
HoldsRest(t, d) ==
    LET n == Cardinality(Entries(d)) - 1
    IN  IF n = 0 THEN t = <<>>
        ELSE /\ Cardinality(NewlineAt(t)) = n
             /\ t[Len(t)] = "\n"
             /\ \A k \in 1..n : SubSeq(t, SegLo(t, k), SegHi(t, k)) = Entry(d, k + 1)

OrigQ == orig[IMAGE_URL_FILE]

NowQ == fs[IMAGE_URL_FILE]

Committed == NowQ.exists /\ Entries(OrigQ.data) # {} /\ HoldsRest(NowQ.data, OrigQ.data)

----------------------------------------------------------------------------
(* validate_image_url *)

BLOCKED_DOMAINS ==
    {<<"g", "i", "t", "h", "u", "b", ".", "c", "o", "m">>,
     <<"r", "a", "w", ".", "g", "i", "t", "h", "u", "b", "u", "s", "e", "r", "c", "o", "n", "t", "e", "n", "t", ".", "c", "o", "m">>,
     <<"l", "o", "c", "a", "l", "h", "o", "s", "t">>,
     <<"1", "2", "7", ".", "0", ".", "0", ".", "1">>}

WHITELIST_DOMAINS ==
    {<<"a", "l", "i", "c", "d", "n", ".", "c", "o", "m">>,
     <<"q", "i", "n", "i", "u", "c", "d", "n", ".", "c", "o", "m">>,
     <<"a", "l", "i", "y", "u", "n", "c", "s", ".", "c", "o", "m">>,
     <<"c", "d", "n", ".">>,
     <<"i", "m", "g", ".">>,
     <<"o", "s", "s", "-">>,
     <<"y", "o", "u", "r", "c", "o", "m", "p", "a", "n", "y", ".", "c", "o", "m">>}

SUPPORTED_IMAGE_FORMATS ==
    {<<"j", "p", "g">>, <<"j", "p", "e", "g">>, <<"p", "n", "g">>, <<"g", "i", "f">>, <<"w", "e", "b", "p">>}

ILLEGAL_CHARACTERS == {" ", "|", "{", "}"}

\* the pattern \.(jpg|jpeg|png|gif|webp) matched, ignoring case, against the end of s
ExtensionAtEnd(s) == \E f \in SUPPORTED_IMAGE_FORMATS : EndsWith(Lower(s), <<".">> \o f)

\* re.search(pattern + "$", url, re.IGNORECASE): $ also matches before a final newline
FormatMatches(url) ==
    \/ ExtensionAtEnd(url)
    \/ /\ url # <<>>
       /\ url[Len(url)] = "\n"
       /\ ExtensionAtEnd(SubSeq(url, 1, Len(url) - 1))

\* the allowlist test, whose miss only logs a warning
InWhitelist(url) == \E d \in WHITELIST_DOMAINS : Contains(url, d)

ValidateImageUrl(url) ==
    IF ~StartsWith(url, HTTPS_PREFIX)
        THEN [valid |-> FALSE, reason |-> "not_https"]
    ELSE IF \E b \in BLOCKED_DOMAINS : Contains(Lower(url), b)
        THEN [valid |-> FALSE, reason |-> "blocked_domain"]
    ELSE IF ~FormatMatches(url)
        THEN [valid |-> FALSE, reason |-> "bad_format"]
    ELSE IF \E i \in 1..Len(url) : url[i] \in ILLEGAL_CHARACTERS
        THEN [valid |-> FALSE, reason |-> "illegal_character"]
    ELSE [valid |-> TRUE, reason |-> "ok"]

----------------------------------------------------------------------------
(* load_config *)

RequiredFields == {"webhook", "secret", "template"}

DefaultedFields == {"title", "at_mobiles", "is_at_all"}

\* entries a config.json can hold; webhook is the JSON value under "webhook"
ItemGood       == [isDict |-> TRUE, keys |-> RequiredFields,
                   webhook |-> [isStr |-> TRUE, hasToken |-> TRUE]]
ItemNoToken    == [isDict |-> TRUE, keys |-> RequiredFields,
                   webhook |-> [isStr |-> TRUE, hasToken |-> FALSE]]
ItemNullHook   == [isDict |-> TRUE, keys |-> RequiredFields \cup {"title"},
                   webhook |-> [isStr |-> FALSE, hasToken |-> FALSE]]
ItemNoTemplate == [isDict |-> TRUE, keys |-> {"webhook", "secret"},
                   webhook |-> [isStr |-> TRUE, hasToken |-> TRUE]]
ItemNotDict    == [isDict |-> FALSE, keys |-> {},
                   webhook |-> [isStr |-> FALSE, hasToken |-> FALSE]]

SampleItems == {ItemGood, ItemNoToken, ItemNullHook, ItemNoTemplate, ItemNotDict}

\* what load_config can find on disk: no file, unparsable JSON, a non-list, or a list
RawConfigs ==
    {[kind |-> k, items |-> <<>>] : k \in {"missing", "bad_json", "not_list"}}
        \cup {[kind |-> "list", items |-> its] :
                 its \in UNION {[1..n -> SampleItems] : n \in 0..MaxDest}}

ConfigRaises(raw) == raw.kind # "list"

IsValidItem(item) == item.isDict /\ RequiredFields \subseteq item.keys

\* item.setdefault(...) for title, at_mobiles, is_at_all
WithDefaults(item) == [item EXCEPT !.keys = @ \cup DefaultedFields]

RECURSIVE ValidConfig(_)
ValidConfig(items) ==
    IF items = <<>> THEN <<>>
    ELSE IF IsValidItem(Head(items))
         THEN <<WithDefaults(Head(items))>> \o ValidConfig(Tail(items))
         ELSE ValidConfig(Tail(items))

----------------------------------------------------------------------------
(* main *)

\* a buggy variant that never takes the early return
FalsyNever(u) == FALSE

\* if not img_url
Falsy(u) == ~u.some \/ u.val = <<>>

Outcomes == {"ok", "bad", "raise"}

Power2(n) == IF n = 0 THEN 1 ELSE IF n = 1 THEN 2 ELSE IF n = 2 THEN 4 ELSE 8

\* a buggy variant without the exponential factor
DelayFlat(r, k) == INITIAL_RETRY_DELAY * JitterSteps + k

\* INITIAL_RETRY_DELAY * (2 ** retry) + random.uniform(0, 1), in units of 1/JitterSteps s
Delay(r, k) == INITIAL_RETRY_DELAY * Power2(r) * JitterSteps + k

\* what the loop did with the current item; url is the img_url argument of its send
Dest(outcome) ==
    [dest |-> idx, outcome |-> outcome,
     url |-> IF outcome = "ctor_error" THEN None ELSE img_url]

\* return 1 from the except clause of main
ReturnException ==
    /\ exit_code' = 1
    /\ exitVia' = "exception"
    /\ pc' = "done"

\* if not img_url: return 1
MainCheck ==
    /\ pc = "main_check"
    /\ IF Falsy(img_url)
       THEN /\ exit_code' = 1
            /\ exitVia' = "no_url"
            /\ pc' = "done"
       ELSE /\ pc' = "load_config"
            /\ UNCHANGED <<exit_code, exitVia>>
    /\ UNCHANGED <<fs, orig, aside, popLocals, ioFault, img_url, config, cfgLoads, idx,
                   success_count, report, pause, sendLocals>>

\* a buggy variant that puts the identifier back when no destination can be loaded
LoadConfigPutBack ==
    /\ pc = "load_config"
    /\ cfgLoads' = cfgLoads + 1
    /\ \E raw \in RawConfigs :
         IF ConfigRaises(raw)
         THEN /\ ReturnException
              /\ fs' = orig
              /\ UNCHANGED <<config, idx>>
         ELSE /\ config' = ValidConfig(raw.items)
              /\ IF config' = <<>>
                 THEN /\ exit_code' = 1
                      /\ exitVia' = "no_config"
                      /\ pc' = "done"
                      /\ fs' = orig
                      /\ UNCHANGED idx
                 ELSE /\ idx' = 1
                      /\ pc' = "loop_head"
                      /\ UNCHANGED <<fs, exit_code, exitVia>>
    /\ UNCHANGED <<orig, aside, popLocals, ioFault, img_url, success_count, report,
                   pause, sendLocals>>

\* config = load_config(); if not config: return 1
LoadConfig ==
    /\ pc = "load_config"
    /\ cfgLoads' = cfgLoads + 1
    /\ \E raw \in RawConfigs :
         IF ConfigRaises(raw)
         THEN /\ ReturnException
              /\ UNCHANGED <<config, idx>>
         ELSE /\ config' = ValidConfig(raw.items)
              /\ IF config' = <<>>
                 THEN /\ exit_code' = 1
                      /\ exitVia' = "no_config"
                      /\ pc' = "done"
                      /\ UNCHANGED idx
                 ELSE /\ idx' = 1
                      /\ pc' = "loop_head"
                      /\ UNCHANGED <<exit_code, exitVia>>
    /\ UNCHANGED <<fs, orig, aside, popLocals, ioFault, img_url, success_count, report,
                   pause, sendLocals>>

\* for idx, item in enumerate(config, 1): logger.info(..., item['webhook'][:30])
LoopHead ==
    /\ pc = "loop_head"
    /\ pause' = 0
    /\ IF idx > Len(config)
       THEN /\ pc' = "summary"
            /\ UNCHANGED <<exit_code, exitVia>>
       ELSE IF config[idx].webhook.isStr
            THEN /\ pc' = "construct"
                 /\ UNCHANGED <<exit_code, exitVia>>
            ELSE ReturnException
    /\ UNCHANGED <<fs, orig, aside, popLocals, ioFault, img_url, config, cfgLoads, idx,
                   success_count, report, sendLocals>>

\* bot = DingTalkBotEnhanced(...); a ValueError is caught, logged, and the loop continues
Construct ==
    /\ pc = "construct"
    /\ attempts' = <<>>
    /\ delays' = <<>>
    /\ retry' = 0
    /\ IF config[idx].webhook.hasToken
       THEN /\ pc' = "validate"
            /\ UNCHANGED <<idx, report>>
       ELSE /\ report' = Append(report, Dest("ctor_error"))
            /\ idx' = idx + 1
            /\ pc' = "loop_head"
    /\ UNCHANGED <<fs, orig, aside, popLocals, ioFault, img_url, config, cfgLoads,
                   success_count, pause, exit_code, exitVia>>

\* a buggy variant that sends without looking at the validation result
SendValidateSkipped ==
    /\ pc = "validate"
    /\ pc' = "attempt"
    /\ UNCHANGED <<fs, orig, aside, popLocals, ioFault, img_url, mainLocals, sendLocals>>

\* send_markdown_with_image: is_valid, msg = validate_image_url(img_url); if not is_valid: return False
SendValidate ==
    /\ pc = "validate"
    /\ IF ValidateImageUrl(img_url.val).valid
       THEN /\ pc' = "attempt"
            /\ UNCHANGED report
       ELSE /\ report' = Append(report, Dest("invalid"))
            /\ pc' = "pace"
    /\ UNCHANGED <<fs, orig, aside, popLocals, ioFault, img_url, config, cfgLoads, idx,
                   success_count, pause, exit_code, exitVia, sendLocals>>

\* a buggy variant that keeps retrying after a success
AttemptNoReturn ==
    /\ pc = "attempt"
    /\ retry < MAX_RETRIES
    /\ \E o \in Outcomes :
         /\ attempts' = Append(attempts, o)
         /\ IF retry < MAX_RETRIES - 1
            THEN /\ pc' = "backoff"
                 /\ UNCHANGED retry
            ELSE /\ retry' = retry + 1
                 /\ pc' = "attempt"
    /\ UNCHANGED <<fs, orig, aside, popLocals, ioFault, img_url, mainLocals, delays>>

\* _send_with_retry: one pass of the loop body up to its sleep
Attempt ==
    /\ pc = "attempt"
    /\ retry < MAX_RETRIES
    /\ \E o \in Outcomes :
         /\ attempts' = Append(attempts, o)
         /\ IF o = "ok"
            THEN /\ success_count' = success_count + 1
                 /\ report' = Append(report, Dest("sent"))
                 /\ pc' = "pace"
                 /\ UNCHANGED retry
            ELSE /\ IF retry < MAX_RETRIES - 1
                    THEN /\ pc' = "backoff"
                         /\ UNCHANGED retry
                    ELSE /\ retry' = retry + 1
                         /\ pc' = "attempt"
                 /\ UNCHANGED <<success_count, report>>
    /\ UNCHANGED <<fs, orig, aside, popLocals, ioFault, img_url, config, cfgLoads, idx,
                   pause, exit_code, exitVia, delays>>

\* time.sleep(delay) between two attempts
Backoff ==
    /\ pc = "backoff"
    /\ \E k \in 0..(JitterSteps - 1) : delays' = Append(delays, Delay(retry, k))
    /\ retry' = retry + 1
    /\ pc' = "attempt"
    /\ UNCHANGED <<fs, orig, aside, popLocals, ioFault, img_url, mainLocals, attempts>>

\* the for loop of _send_with_retry is exhausted: return False
Exhausted ==
    /\ pc = "attempt"
    /\ retry >= MAX_RETRIES
    /\ report' = Append(report, Dest("exhausted"))
    /\ pc' = "pace"
    /\ UNCHANGED <<fs, orig, aside, popLocals, ioFault, img_url, config, cfgLoads, idx,
                   success_count, pause, exit_code, exitVia, sendLocals>>

\* a buggy variant whose sleep may be shorter than PUSH_INTERVAL_MIN
PaceFromZero ==
    /\ pc = "pace"
    /\ \E d \in 0..(PUSH_INTERVAL_MAX * JitterSteps) : pause' = d
    /\ idx' = idx + 1
    /\ retry' = 0
    /\ attempts' = <<>>
    /\ delays' = <<>>
    /\ pc' = "loop_head"
    /\ UNCHANGED <<fs, orig, aside, popLocals, ioFault, img_url, config, cfgLoads,
                   success_count, report, exit_code, exitVia>>

\* time.sleep(random.uniform(PUSH_INTERVAL_MIN, PUSH_INTERVAL_MAX)), then the next item;
\* the send has returned, so its locals are gone
Pace ==
    /\ pc = "pace"
    /\ \E d \in (PUSH_INTERVAL_MIN * JitterSteps)..(PUSH_INTERVAL_MAX * JitterSteps) :
         pause' = d
    /\ idx' = idx + 1
    /\ retry' = 0
    /\ attempts' = <<>>
    /\ delays' = <<>>
    /\ pc' = "loop_head"
    /\ UNCHANGED <<fs, orig, aside, popLocals, ioFault, img_url, config, cfgLoads,
                   success_count, report, exit_code, exitVia>>

\* a buggy variant that fails the run when a destination failed
SummaryStrict ==
    /\ pc = "summary"
    /\ exit_code' = IF success_count < Len(config) THEN 1 ELSE 0
    /\ exitVia' = "ok"
    /\ pc' = "done"
    /\ UNCHANGED <<fs, orig, aside, popLocals, ioFault, img_url, config, cfgLoads, idx,
                   success_count, report, pause, sendLocals>>

\* the summary is logged and main returns 0
Summary ==
    /\ pc = "summary"
    /\ exit_code' = 0
    /\ exitVia' = "ok"
    /\ pc' = "done"
    /\ UNCHANGED <<fs, orig, aside, popLocals, ioFault, img_url, config, cfgLoads, idx,
                   success_count, report, pause, sendLocals>>

MainStep ==
    \/ MainCheck
    \/ LoadConfig
    \/ LoopHead
    \/ Construct
    \/ SendValidate
    \/ Attempt
    \/ Backoff
    \/ Exhausted
    \/ Pace
    \/ Summary

\* queue files a run of main starts from
MainTexts ==
    {<<>>,
     <<" ", "\n", "\t", "\n">>,
     UrlA \o <<"\n">> \o UrlB,
     <<"\n", " ">> \o UrlHttp \o <<" ", "\n", "\n">> \o UrlA \o <<"\n">>}

Init ==
    /\ fs \in Disks(MainTexts, {Absent})
    /\ InitRun

Next ==
    \/ PopStep
    \/ MainStep
    \/ Crash

Spec == Init /\ [][Next]_vars

----------------------------------------------------------------------------
(* send_markdown_with_image and send_text up to their first transport call *)

DEFAULT_IMAGE_PLACEHOLDER == <<"{", "I", "M", "A", "G", "E", "_", "U", "R", "L", "}">>

\* the text appended when the template has no placeholder; a character outside
\* ASCII is written as its code point
ImagePrefix == <<"\n", "\n", "!", "[", "U76D1", "U63A7", "U56FE", "]", "(">>

ImageSuffix == <<")">>

AtAllPrefix == <<"@", "U6240", "U6709", "U4EBA", " ">>

\* str.replace(p, r): the occurrences of p are taken from the left, without overlap
RECURSIVE ReplaceAll(_, _, _)
ReplaceAll(s, p, r) ==
    IF p = <<>>
    THEN IF s = <<>> THEN r ELSE r \o <<Head(s)>> \o ReplaceAll(Tail(s), p, r)
    ELSE IF Len(s) < Len(p) THEN s
    ELSE IF SubSeq(s, 1, Len(p)) = p
         THEN r \o ReplaceAll(SubSeq(s, Len(p) + 1, Len(s)), p, r)
         ELSE <<Head(s)>> \o ReplaceAll(Tail(s), p, r)

\* a buggy variant that replaces the first occurrence only
ReplaceFirst(s, p, r) ==
    IF p # <<>> /\ Contains(s, p)
    THEN LET i == CHOOSE k \in 1..Len(s) :
                     /\ SubSeq(s, k, k + Len(p) - 1) = p
                     /\ \A j \in 1..(k - 1) : SubSeq(s, j, j + Len(p) - 1) # p
         IN  SubSeq(s, 1, i - 1) \o r \o SubSeq(s, i + Len(p), Len(s))
    ELSE s

\* a buggy variant of the composition
ComposeFirstOnly(content, img_url_arg, image_placeholder) ==
    IF Contains(content, image_placeholder)
    THEN ReplaceFirst(content, image_placeholder, img_url_arg)
    ELSE content \o ImagePrefix \o img_url_arg \o ImageSuffix

\* step 2 of send_markdown_with_image
Compose(content, img_url_arg, image_placeholder) ==
    IF Contains(content, image_placeholder)
    THEN ReplaceAll(content, image_placeholder, img_url_arg)
    ELSE content \o ImagePrefix \o img_url_arg \o ImageSuffix

\* the keyword arguments send_markdown_with_image hands to bot.send_markdown
MarkdownKwargs(title, content, img_url_arg, image_placeholder, at_mobiles, is_at_all) ==
    [title      |-> title,
     text       |-> Compose(content, img_url_arg, image_placeholder),
     at_mobiles |-> IF ~is_at_all THEN at_mobiles ELSE None,
     is_at_all  |-> is_at_all]

\* " ".join([f"@{m}" for m in at_mobiles])
RECURSIVE JoinMentions(_)
JoinMentions(ms) ==
    IF ms = <<>> THEN <<>>
    ELSE IF Len(ms) = 1 THEN <<"@">> \o Head(ms)
    ELSE <<"@">> \o Head(ms) \o <<" ">> \o JoinMentions(Tail(ms))

\* a list argument is truthy when it is given and not empty
Truthy(at_mobiles) == at_mobiles.some /\ at_mobiles.val # <<>>

\* final_msg of send_text
FinalMsg(msg, at_mobiles, is_at_all) ==
    IF is_at_all \/ Truthy(at_mobiles)
    THEN (IF is_at_all THEN AtAllPrefix ELSE JoinMentions(at_mobiles.val) \o <<" ">>) \o msg
    ELSE msg

\* the keyword arguments send_text hands to bot.send_text
TextKwargs(msg, at_mobiles, is_at_all) ==
    [msg        |-> FinalMsg(msg, at_mobiles, is_at_all),
     at_mobiles |-> at_mobiles,
     is_at_all  |-> is_at_all]

----------------------------------------------------------------------------
(* The call specification: one call of one operation on drawn arguments     *)

Schemes == {HTTPS_PREFIX, <<"h", "t", "t", "p", ":", "/", "/">>, <<"H", "T", "T", "P", "S", ":", "/", "/">>, <<>>}

Hosts == {<<"c", "d", "n", ".", "x">>,
          <<"G", "i", "t", "H", "u", "b", ".", "c", "o", "m">>,
          <<"x", ".", "y">>,
          <<"L", "O", "C", "A", "L", "H", "O", "S", "T">>,
          <<"1", "2", "7", ".", "0", ".", "0", ".", "1">>}

Tails == {<<"/", "a", ".", "j", "p", "g">>,
          <<"/", "a", ".", "J", "P", "E", "G">>,
          <<"/", "a", ".", "t", "x", "t">>,
          <<"/", "a", " ", "b", ".", "p", "n", "g">>,
          <<"/", "a", "|", "b", ".", "g", "i", "f">>,
          <<"/", "a", ".", "w", "e", "b", "p", "\n">>,
          <<"/", "a", ".", "p", "n", "g", "?", "x">>,
          <<"/", "{", "a", "}", ".", "j", "p", "g">>}

SampleUrls == {s \o h \o tl : s \in Schemes, h \in Hosts, tl \in Tails}

SampleTemplates ==
    {<<>>,
     <<"h", "i">>,
     <<"s", "e", "e", " ", "{", "I", "M", "A", "G", "E", "_", "U", "R", "L", "}">>,
     <<"{", "I", "M", "A", "G", "E", "_", "U", "R", "L", "}", " ", "a", "n", "d", " ", "{", "I", "M", "A", "G", "E", "_", "U", "R", "L", "}">>,
     <<"{", "I", "M", "A", "G", "E", "_", "U", "R", "L", "}", "{", "I", "M", "A", "G", "E", "_", "U", "R", "L", "}">>,
     <<"{", "I", "M", "A", "G", "E", "_", "U", "R", "L">>}

SampleMentions ==
    {None, Some(<<>>), Some(<<<<"1", "3", "8">>>>), Some(<<<<"1", "3", "8">>, <<"1", "3", "9">>>>)}

MarkdownUrls == {UrlA, UrlB, UrlHttp, UrlPipe}

Calls ==
    {[fn |-> "validate", url |-> u] : u \in SampleUrls}
      \cup {[fn |-> "send_markdown", title |-> <<"t">>, content |-> c, url |-> u,
             placeholder |-> DEFAULT_IMAGE_PLACEHOLDER, at_mobiles |-> m, is_at_all |-> a] :
               c \in SampleTemplates, u \in MarkdownUrls, m \in SampleMentions, a \in BOOLEAN}
      \cup {[fn |-> "send_text", msg |-> <<"m">>, at_mobiles |-> m, is_at_all |-> a] :
               m \in SampleMentions, a \in BOOLEAN}

InitCall ==
    /\ fs = [p \in Paths |-> Absent]
    /\ InitLocals
    /\ pc = "call"
    /\ popLog = <<>>
    /\ rival = NoRival
    /\ fnIn \in Calls
    /\ fnOut = NoCall
    /\ hnd = NoHandles

callFrame == <<fs, orig, pc, popLocals, ioFault, img_url, mainLocals, sendLocals,
               popLog, rival, fnIn, hnd>>

\* validate_image_url(url)
CallValidate ==
    /\ fnIn.fn = "validate"
    /\ fnOut = NoCall
    /\ fnOut' = [fn |-> "validate", result |-> ValidateImageUrl(fnIn.url)]
    /\ UNCHANGED callFrame

\* send_markdown_with_image(...): False on an invalid identifier, otherwise the transport is called
CallSendMarkdown ==
    /\ fnIn.fn = "send_markdown"
    /\ fnOut = NoCall
    /\ fnOut' = IF ~ValidateImageUrl(fnIn.url).valid
                THEN [fn |-> "send_markdown", called |-> FALSE]
                ELSE [fn |-> "send_markdown", called |-> TRUE,
                      kwargs |-> MarkdownKwargs(fnIn.title, fnIn.content, fnIn.url,
                                                fnIn.placeholder, fnIn.at_mobiles,
                                                fnIn.is_at_all)]
    /\ UNCHANGED callFrame

\* send_text(...): the transport is called
CallSendText ==
    /\ fnIn.fn = "send_text"
    /\ fnOut = NoCall
    /\ fnOut' = [fn |-> "send_text", called |-> TRUE,
                 kwargs |-> TextKwargs(fnIn.msg, fnIn.at_mobiles, fnIn.is_at_all)]
    /\ UNCHANGED callFrame

NextCall ==
    \/ CallValidate
    \/ CallSendMarkdown
    \/ CallSendText

SpecCall == InitCall /\ [][NextCall]_vars

----------------------------------------------------------------------------
(* Claims on pop_first_url *)

PreCommitPcs == {"pop_exists", "pop_read", "pop_open", "pop_write", "pop_close", "pop_replace"}

\* C1: wherever a pop is interrupted, the queue file holds either its original
\* contents or exactly the remaining identifiers; it is untouched up to the
\* rename, an identifier is returned only after the rename has committed, and
\* a pop that returns no identifier leaves the queue file untouched.
C1_PopCrashAtomic ==
    /\ NowQ = OrigQ \/ Committed
    /\ pc \in PreCommitPcs => NowQ = OrigQ
    /\ img_url.some => Committed
    /\ (pc = "main_check" /\ ~img_url.some) => NowQ = OrigQ

\* the run was killed after part of the remaining lines had reached the temporary file
C1_Witness ==
    /\ pc = "crashed"
    /\ fs[TempPath(IMAGE_URL_FILE)].exists
    /\ fs[TempPath(IMAGE_URL_FILE)].data # <<>>
    /\ fs[TempPath(IMAGE_URL_FILE)].data # StaleTmp.data
    /\ fs[TempPath(IMAGE_URL_FILE)].data[Len(fs[TempPath(IMAGE_URL_FILE)].data)] # "\n"
    /\ Cardinality(Entries(OrigQ.data)) >= 2
    /\ NowQ = OrigQ

C3_PopNothing ==
    (~OrigQ.exists \/ Entries(OrigQ.data) = {})
        => /\ fs = orig
           /\ img_url = None
           /\ exitVia # "exception"

\* a pop returned on a file that holds only blank lines
C3_Witness ==
    /\ pc = "main_check"
    /\ OrigQ.exists
    /\ OrigQ.data # <<>>
    /\ Entries(OrigQ.data) = {}
    /\ ~ioFault

----------------------------------------------------------------------------
(* Claims on main and the sender *)

FirstId == Some(Entry(OrigQ.data, 1))

LastReport == report[Len(report)]

Failed(o) == o # "ok"

\* C4: the queue is popped once, before any destination is processed, and every
\* send of the run is given that popped identifier; a run on the queue [a, b]
\* leaves [b] and has used a for all destinations.
C4_OnePopSharedUrl ==
    /\ idx >= 1 => (Committed /\ img_url = FirstId)
    /\ \A i \in 1..Len(report) : report[i].outcome # "ctor_error" => report[i].url = FirstId
    /\ (pc = "done" /\ exit_code = 0 /\ OrigQ = File(UrlA \o <<"\n">> \o UrlB))
          => /\ NowQ = File(UrlB \o <<"\n">>)
             /\ \A i \in 1..Len(report) :
                    report[i].outcome # "ctor_error" => report[i].url = Some(UrlA)

\* a run on [a, b] finished after sending to two destinations
C4_Witness ==
    /\ pc = "done"
    /\ exit_code = 0
    /\ OrigQ = File(UrlA \o <<"\n">> \o UrlB)
    /\ Len(report) >= 2
    /\ \A i \in 1..Len(report) : report[i].outcome = "sent" /\ report[i].url = Some(UrlA)

\* C5: when every attempt fails, by a bad response or by an exception, the
\* sender reports failure after exactly three transport calls.
C5_AlwaysFailing ==
    /\ Len(attempts) <= 3
    /\ (pc = "pace" /\ attempts # <<>> /\ \A i \in 1..Len(attempts) : Failed(attempts[i]))
          => /\ Len(attempts) = 3
             /\ LastReport.dest = idx
             /\ LastReport.outcome = "exhausted"
    /\ (pc = "pace" /\ LastReport.outcome = "exhausted")
          => /\ Len(attempts) = 3
             /\ \A i \in 1..3 : Failed(attempts[i])

\* a send gave up after a mix of bad responses and exceptions
C5_Witness ==
    /\ pc = "pace"
    /\ LastReport.outcome = "exhausted"
    /\ \E i, j \in 1..Len(attempts) : attempts[i] = "bad" /\ attempts[j] = "raise"

SentCount == Cardinality({i \in 1..Len(report) : report[i].outcome = "sent"})

\* C6: when the transport fails N < 3 times and then succeeds, the sender
\* reports success after exactly N + 1 calls, none after the success, and
\* the N sleeps between the calls are strictly increasing.
C6_FailThenSucceed ==
    /\ \A i \in 1..(Len(attempts) - 1) : Failed(attempts[i])
    /\ (pc # "crashed" /\ attempts # <<>> /\ attempts[Len(attempts)] = "ok")
          => /\ pc = "pace"
             /\ Len(attempts) <= 3
             /\ LastReport.dest = idx
             /\ LastReport.outcome = "sent"
             /\ success_count = SentCount
             /\ Len(delays) = Len(attempts) - 1
             /\ \A i, j \in 1..Len(delays) : i < j => delays[i] < delays[j]

\* a send succeeded at its third call, after two sleeps
C6_Witness ==
    /\ pc = "pace"
    /\ Len(attempts) = 3
    /\ attempts[3] = "ok"
    /\ Len(delays) = 2

\* C7: a send whose identifier fails validation returns failure with no
\* transport call and no retry sleep, and the transport is only ever called
\* with an identifier that passed validation.
C7_ValidateFirst ==
    /\ (pc \in {"attempt", "backoff"} \/ (pc = "pace" /\ attempts # <<>>))
          => ValidateImageUrl(img_url.val).valid
    /\ (pc = "pace" /\ ~ValidateImageUrl(img_url.val).valid)
          => /\ LastReport.dest = idx
             /\ LastReport.outcome = "invalid"
             /\ attempts = <<>>
             /\ delays = <<>>
    /\ \A i \in 1..Len(report) :
          report[i].outcome \in {"sent", "exhausted"} => ValidateImageUrl(report[i].url.val).valid

\* a send returned on an identifier that is not https
C7_Witness ==
    /\ pc = "pace"
    /\ LastReport.outcome = "invalid"
    /\ img_url = Some(UrlHttp)
    /\ attempts = <<>>

\* C8: main returns 0 whenever an identifier was popped and the validated
\* destination list is non-empty, whatever happens at the destinations, and 1
\* only without an identifier, without a valid destination or on an exception
\* that reaches the top level.
C8_ExitCode ==
    pc = "done"
        => /\ exit_code \in {0, 1}
           /\ (img_url.some /\ config # <<>>) => exit_code = 0
           /\ exit_code = 1 => (~img_url.some \/ config = <<>> \/ exitVia = "exception")

\* C9: with the queue file missing or empty, main returns 1 without loading
\* the configuration, constructing a client or calling the transport, and
\* the queue file is unchanged.
C9_EmptyQueueAborts ==
    (~OrigQ.exists \/ Entries(OrigQ.data) = {})
        => /\ cfgLoads = 0
           /\ pc \in PopPcs \cup {"main_check", "done", "crashed"}
           /\ idx = 0
           /\ report = <<>>
           /\ attempts = <<>>
           /\ fs = orig
           /\ pc = "done" => (exit_code = 1 /\ exitVia = "no_url")

\* main returned on a queue file that was missing
C9_Witness ==
    /\ pc = "done"
    /\ exit_code = 1
    /\ ~OrigQ.exists

\* C10: once an identifier is popped and the destination list is non-empty,
\* the destinations are processed one by one in list order, each exactly once,
\* and the run ends having processed them all, whatever failed at any of them.
C10_Isolation ==
    /\ \A i \in 1..Len(report) : report[i].dest = i
    /\ (pc = "done" /\ img_url.some /\ config # <<>>)
          => /\ Len(report) = Len(config)
             /\ exitVia = "ok"

----------------------------------------------------------------------------
(* Claims on pacing, validation failure and backoff *)

\* a pacing sleep of 1 to 3 seconds, in units of 1/JitterSteps s
PacingRange == (1 * JitterSteps)..(3 * JitterSteps)

\* C11 as stated: every destination the loop has left, a failed construction
\* included, was followed by one pacing sleep of 1 to 3 seconds.
C11_PacingAfterEach ==
    (pc = "loop_head" /\ idx > 1) => pause \in PacingRange

\* C11 as amended: a destination whose send returned (sent, invalid identifier
\* or retries exhausted) is followed by one pacing sleep of 1 to 3 seconds;
\* a destination whose client construction failed is followed by none; and no
\* sleep is pending while a destination is being processed.
C11_PacingAfterSend ==
    /\ (pc = "loop_head" /\ idx > 1)
          => /\ Len(report) = idx - 1
             /\ IF report[idx - 1].outcome = "ctor_error"
                THEN pause = 0
                ELSE pause \in PacingRange
    /\ pc \in {"construct", "validate", "attempt", "backoff", "pace"} => pause = 0

\* the loop moved on from a destination whose retries were exhausted, after the longest sleep
C11_Witness ==
    /\ pc = "loop_head"
    /\ idx > 1
    /\ report[idx - 1].outcome = "exhausted"
    /\ pause = 3 * JitterSteps

\* C12: when the popped identifier fails validation, no destination succeeds,
\* the transport is never called, and the run still goes through every
\* destination of the list.
C12_InvalidFailsAll ==
    (img_url.some /\ ~ValidateImageUrl(img_url.val).valid)
        => /\ attempts = <<>>
           /\ success_count = 0
           /\ \A i \in 1..Len(report) : report[i].outcome \in {"invalid", "ctor_error"}
           /\ (pc = "done" /\ config # <<>>) => Len(report) = Len(config)

RECURSIVE TwoTo(_)
TwoTo(n) == IF n = 0 THEN 1 ELSE 2 * TwoTo(n - 1)

\* C16: a backoff sleep follows exactly each failed attempt that is not the
\* third, whichever way it failed: none before the first attempt, none after a
\* success, none after the third attempt, so k attempts come with k - 1
\* sleeps; the sleep after attempt i (from 0) lasts between 2^i and 2^i + 1 s.
C16_BackoffSleeps ==
    /\ Len(delays) <= 2
    /\ attempts = <<>> => delays = <<>>
    /\ attempts # <<>> => Len(delays) \in {Len(attempts) - 1, Len(attempts)}
    /\ (attempts # <<>> /\ Len(delays) = Len(attempts) /\ pc # "crashed")
          => /\ pc = "attempt"
             /\ Len(attempts) < 3
             /\ Failed(attempts[Len(attempts)])
    /\ pc = "backoff"
          => /\ Failed(attempts[Len(attempts)])
             /\ Len(attempts) < 3
             /\ Len(delays) = Len(attempts) - 1
    /\ (pc = "pace" /\ attempts # <<>>) => Len(delays) = Len(attempts) - 1
    /\ \A i \in 1..Len(delays) :
          /\ delays[i] >= TwoTo(i - 1) * JitterSteps
          /\ delays[i] <= (TwoTo(i - 1) + 1) * JitterSteps

\* a send gave up after an exception and a bad response, each followed by a sleep, and a third failure
C16_Witness ==
    /\ pc = "pace"
    /\ Len(attempts) = 3
    /\ attempts[1] = "raise"
    /\ attempts[2] = "bad"
    /\ Failed(attempts[3])
    /\ Len(delays) = 2

\* the run ended without a destination list: the configuration raised or held no valid entry
AbortedOnConfig == pc = "done" /\ cfgLoads >= 1 /\ config = <<>>

\* C19: the pop has committed before the configuration is looked at and is
\* never undone: whenever the pop succeeded the queue file holds exactly one
\* identifier fewer, also in runs that end with exit code 1 for lack of a
\* usable configuration and in runs where every destination fails, and in
\* those runs the identifier reaches no destination.
C19_PopNotUndone ==
    /\ img_url.some => Committed
    /\ (cfgLoads >= 1 \/ pc \in {"load_config", "loop_head", "construct", "validate",
                                  "attempt", "backoff", "pace", "summary"}) => Committed
    /\ AbortedOnConfig
          => /\ exit_code = 1
             /\ Committed
             /\ report = <<>>
             /\ attempts = <<>>
    /\ (pc = "done" /\ exit_code = 0 /\ success_count = 0)
          => /\ Committed
             /\ \A i \in 1..Len(report) : report[i].outcome # "sent"

\* a run ended with exit code 1 because no entry of the configuration was valid
C19_Witness ==
    /\ pc = "done"
    /\ exit_code = 1
    /\ exitVia = "no_config"
    /\ img_url.some
    /\ NowQ # OrigQ

----------------------------------------------------------------------------
(* Claims on single calls *)

Validated == fnIn.fn = "validate" /\ fnOut.fn = "validate"

SchemeOk(url) == StartsWith(url, <<"h", "t", "t", "p", "s", ":", "/", "/">>)

BlocklistOk(url) == \A b \in BLOCKED_DOMAINS : ~Contains(Lower(url), b)

EndsWithExtension(url) ==
    \E f \in SUPPORTED_IMAGE_FORMATS : EndsWith(Lower(url), <<".">> \o f)

CharactersOk(url) == \A i \in 1..Len(url) : url[i] \notin {" ", "|", "{", "}"}

FirstFailing(url) ==
    IF ~SchemeOk(url) THEN "not_https"
    ELSE IF ~BlocklistOk(url) THEN "blocked_domain"
    ELSE IF ~EndsWithExtension(url) THEN "bad_format"
    ELSE IF ~CharactersOk(url) THEN "illegal_character"
    ELSE "ok"

\* C13: validate_image_url accepts an identifier exactly when it starts with
\* https://, holds no blocked domain (ignoring case), ends with a supported
\* extension (ignoring case) and holds no disallowed character; the reason is
\* that of the first failing check in the order scheme, blocklist, format,
\* character; the allowlist does not change the result.
C13_ValidIff ==
    Validated =>
        /\ fnOut.result.valid <=>
              (/\ SchemeOk(fnIn.url)
               /\ BlocklistOk(fnIn.url)
               /\ EndsWithExtension(fnIn.url)
               /\ CharactersOk(fnIn.url))
        /\ fnOut.result.reason = FirstFailing(fnIn.url)

MarkdownSent == fnIn.fn = "send_markdown" /\ fnOut.fn = "send_markdown" /\ fnOut.called

\* the places where p occurs in t
Occurrences(t, p) == {i \in 1..(Len(t) - Len(p) + 1) : SubSeq(t, i, i + Len(p) - 1) = p}

\* how far a place of the template moves when the occurrences before it are replaced
Shift(t, p, u, i) == Cardinality({j \in Occurrences(t, p) : j < i}) * (Len(u) - Len(p))

InOccurrence(t, p, i) == \E j \in Occurrences(t, p) : j <= i /\ i < j + Len(p)

BlankLineAndImage(u) ==
    <<"\n", "\n", "!", "[", "U76D1", "U63A7", "U56FE", "]", "(">> \o u \o <<")">>

NoTargets(at_mobiles) == ~at_mobiles.some \/ at_mobiles.val = <<>>

\* C18: in send_text and in send_markdown_with_image alike, the transport call
\* receives no explicit mention targets when mention_all is set, and receives
\* the given mention list unchanged when it is not set.
C18_MentionsIdentical ==
    (fnOut.fn \in {"send_text", "send_markdown"} /\ fnOut.called) =>
        IF fnIn.is_at_all
        THEN NoTargets(fnOut.kwargs.at_mobiles)
        ELSE fnOut.kwargs.at_mobiles = fnIn.at_mobiles

----------------------------------------------------------------------------
(* Claims on successive pops *)

\* text t is exactly the identifiers of d after the k-th, one per line
HoldsAfter(t, d, k) ==
    LET n == Cardinality(Entries(d)) - k
    IN  IF n <= 0 THEN t = <<>>
        ELSE /\ Cardinality(NewlineAt(t)) = n
             /\ t[Len(t)] = "\n"
             /\ \A j \in 1..n : SubSeq(t, SegLo(t, j), SegHi(t, j)) = Entry(d, k + j)

QueueSize == Cardinality(Entries(OrigQ.data))

\* what the i-th pop has to return
Due(i) == IF i <= QueueSize THEN Some(Entry(OrigQ.data, i)) ELSE None

\* C17: with no input/output failure, on a queue file of n identifiers the
\* i-th of successive pops returns the i-th identifier and later pops return
\* none; between pops the file holds exactly the identifiers not yet returned;
\* once the last identifier is popped the file is present and empty and stays so.
C17_Drain ==
    (OrigQ.exists /\ ~ioFault) =>
        /\ \A i \in 1..Len(popLog) : popLog[i] = Due(i)
        /\ pc = "main_check" =>
              /\ img_url = Due(Len(popLog) + 1)
              /\ QueueSize >= 1 => /\ NowQ.exists
                                   /\ HoldsAfter(NowQ.data, OrigQ.data, Len(popLog) + 1)
        /\ pc = "pop_exists" =>
              /\ NowQ.exists
              /\ popLog # <<>> /\ QueueSize >= 1
                    => HoldsAfter(NowQ.data, OrigQ.data, Len(popLog))
        /\ QueueSize = 0 => NowQ = OrigQ
        /\ (QueueSize >= 1 /\ Len(popLog) >= QueueSize)
              => NowQ.exists /\ NowQ.data = <<>>

C17_Witness ==
    /\ OrigQ.exists /\ ~ioFault
    /\ QueueSize = 2
    /\ Len(popLog) = 4
    /\ popLog[1].some /\ popLog[2].some /\ popLog[1] # popLog[2]
    /\ ~popLog[3].some /\ ~popLog[4].some
    /\ NowQ.exists /\ NowQ.data = <<>>

----------------------------------------------------------------------------
(* Claims on two runs popping the same queue file *)

BothReturned == pc = "main_check" /\ rival.pc = "returned"

\* the values the two calls have returned, in either order
Returned == {img_url, rival.ret}

\* how many of the two calls returned an identifier
Handed == (IF img_url.some THEN 1 ELSE 0) + (IF rival.ret.some THEN 1 ELSE 0)

\* the queue file holds the original identifiers after the k-th, nothing else
SuffixAfter(k) ==
    /\ NowQ.exists
    /\ IF k = 0
       THEN NowQ = OrigQ \/ HoldsAfter(NowQ.data, OrigQ.data, 0)
       ELSE HoldsAfter(NowQ.data, OrigQ.data, k)

\* C15: under two concurrent pops with no input/output failure injected, the
\* queue file holds at every moment a complete suffix of the original
\* identifier sequence; once both pops have returned, the file has lost
\* exactly the identifiers returned, one per pop that returned one, and is as
\* it was if both returned none.
C15_RaceContract ==
    (OrigQ.exists /\ ~ioFault) =>
        /\ \E k \in 0..QueueSize : SuffixAfter(k)
        /\ BothReturned => SuffixAfter(IF Handed <= QueueSize THEN Handed ELSE QueueSize)

\* C20: under two concurrent pops with no input/output failure injected, two
\* pops that both return an identifier return the first and the second of the
\* queue, never the same entry twice; and at every moment the file misses no
\* more identifiers than pops have renamed their temporary file into place.
C20_NoDoubleHandOut ==
    (OrigQ.exists /\ ~ioFault) =>
        /\ (BothReturned /\ Handed = 2)
              => QueueSize >= 2 /\ Returned = {Due(1), Due(2)}
        /\ \E k \in 0..QueueSize :
              /\ SuffixAfter(k)
              /\ k <= (IF pc = "pop_return" \/ (pc = "main_check" /\ img_url.some) THEN 1 ELSE 0)
                      + (IF rival.pc = "pop_return" \/ rival.ret.some THEN 1 ELSE 0)

====
